---- MODULE Spec2Model ----
(***************************************************************************)
(* QuestHub hub client (src/pkg/hub/models.go): connection lifecycle,      *)
(* state-watch loop, handler registries and the timeout-bounded invoke     *)
(* primitive with its typed RPC methods.                                   *)
(*                                                                         *)
(* The signalr transport is an external collaborator.  It is modelled as   *)
(* an environment: each Transport Handle walks                             *)
(*     connecting -> connected -> closed                                   *)
(* and pushes every transition to its state channel while that channel is  *)
(* subscribed; it may answer a submitted call with a value, with an error, *)
(* or never.                                                               *)
(*                                                                         *)
(* Every method of Client that holds c.mu for its whole body is one        *)
(* action.  watchStates and invoke are split where they release the lock   *)
(* or read c.connection without it.                                        *)
(***************************************************************************)
EXTENDS Integers, Sequences, FiniteSets, TLC

(* ------------------------------ bounds --------------------------------- *)
\* Transport Handles one client creates (successful Connect calls)
MaxHandles == 2

\* registrations per handler registry
MaxReg == 2

\* typed RPC calls made during one run
MaxCalls == 1

\* c.timeout, in clock ticks
Timeout == 2

\* Transport Handles created in the runs of SpecInvoke
InvokeHandles == 1

\* registrations per handler registry in the runs of SpecApi
ApiReg == 1

\* Ready notifications the transport delivers during one run
MaxReady == 2

(* ----------------------------- constants ------------------------------- *)
\* capacity of the state channel: make(chan signalr.ClientState, 8)
StateChCap == 8

\* the nil c.connection and the nil c.observeCancel
Nil == 0

\* how long the clock of a waiting call is followed
MaxTime == Timeout + 2

Handles == 1..MaxHandles

Calls == 1..MaxCalls

\* the Ready notifications of a run, numbered in the order of their arrival
Readys == 1..MaxReady

\* the ReadyStatus payloads a notification can carry
Payloads == {"v1", "v2"}

Methods == {"GetServiceStatus", "GetDailyQuests", "GetDailyQuest",
            "GetChallengeBundles", "GetChallengeBundle",
            "GetChallengeBundleSchedules", "ClearCache", "RefreshCache"}

\* the arguments a typed method can be called with: an identifier (empty or
\* not) for the two methods that take one
ArgsOf(m) == IF m \in {"GetDailyQuest", "GetChallengeBundle"} THEN {"", "id"} ELSE {"none"}

\* caller contexts: nil, context.Background(), a cancelable context without
\* deadline, a context with a deadline (cancelable as well)
CtxKinds == {"nil", "background", "cancelable", "deadline"}

\* time left to a caller's deadline when invoke derives its own: less and
\* more than c.timeout
CallerDeltas == {Timeout - 1, Timeout + 1}

\* what the transport can put on a call's result channel: an error, or a
\* value that matches the target type, is JSON null, or does not match
Results == {"error", "match", "null", "mismatch"}

VARIABLES
    connected,          \* c.connected
    connection,         \* c.connection: a handle, or Nil
    observeCancel,      \* c.observeCancel: the handle whose subscription it cancels, or Nil
    readyHandlers,      \* c.readyHandlers
    disconnectHandlers, \* c.disconnectHandlers
    nHandles,           \* Transport Handles created so far
    tstate,             \* handle -> "none" | "connecting" | "connected" | "closed"
    stopped,            \* handle -> Stop() has been called on it
    subscribed,         \* handle -> its state channel is still subscribed
    stateCh,            \* handle -> the transitions buffered in its state channel
    lastErr,            \* handle -> Err() of the handle: "nil" or "err"
    invokes,            \* handle -> calls submitted to it with Invoke
    wpc,                \* handle -> position of its watchStates goroutine
    wErr,               \* handle -> the local err of its watchStates goroutine
    wSnap,              \* handle -> the local handlers of its watchStates goroutine
    spawned,            \* handle -> the "go h(err)" started for its Closed transition
    regAtObs,           \* handle -> registrations present when its Closed was observed, -1 before
    lastObs,            \* the last of: Connected observed, Closed observed, Disconnect called
    call,               \* call -> one typed RPC call: inputs, position, outcome
    last,               \* the API call made by the last step and what it returned
    mu,                 \* c.mu between two steps: "free", or the goroutine that holds it
    rpc,                \* notification -> position of its hubReceiver.Ready call
    rSnap,              \* notification -> the local handlers of its Ready call
    rPayload,           \* notification -> the ReadyStatus it carries
    regAtReady,         \* notification -> registrations present at its snapshot, -1 before
    rSpawned,           \* notification -> the "go h(status)" started for it
    exited,             \* the handler goroutines that have returned
    blockedT,           \* the handler goroutines that block for ever
    panicked,           \* the handler goroutines that have panicked
    crashed             \* the process was ended by a panic no goroutine recovered

clientVars == <<connected, connection, observeCancel, readyHandlers, disconnectHandlers>>

transportVars == <<nHandles, tstate, stopped, subscribed, stateCh, lastErr, invokes>>

watchVars == <<wpc, wErr, wSnap, spawned, regAtObs>>

\* the Event Receiver's calls and the handler goroutines
handlerVars == <<rpc, rSnap, rPayload, regAtReady, rSpawned, exited, blockedT, panicked,
                 crashed>>

vars == <<connected, connection, observeCancel, readyHandlers, disconnectHandlers,
          nHandles, tstate, stopped, subscribed, stateCh, lastErr, invokes,
          wpc, wErr, wSnap, spawned, regAtObs, lastObs, call, last,
          mu, rpc, rSnap, rPayload, regAtReady, rSpawned, exited, blockedT, panicked,
          crashed>>

\* a step that is no call of Connect, Disconnect, OnReady or OnDisconnect
NoCall == [op |-> "internal", err |-> "nil", again |-> FALSE]

\* a call of one of them: what it returned and, for Connect and Disconnect,
\* whether the step before was a call of the same method
ApiCall(op, err) ==
    [op |-> op, err |-> err, again |-> last.op = op /\ op \in {"Connect", "Disconnect"}]

IdleCall == [pc |-> "idle", method |-> "none", arg |-> "none", ctx |-> "nil",
             delta |-> 0, elapsed |-> 0, deadline |-> 0, cancelled |-> FALSE,
             submitted |-> FALSE, conn |-> Nil, res |-> "none", val |-> "none",
             err |-> "nil"]

\* NewClient
Init ==
    /\ connected = FALSE
    /\ connection = Nil
    /\ observeCancel = Nil
    /\ readyHandlers = <<>>
    /\ disconnectHandlers = <<>>
    /\ nHandles = 0
    /\ tstate = [h \in Handles |-> "none"]
    /\ stopped = [h \in Handles |-> FALSE]
    /\ subscribed = [h \in Handles |-> FALSE]
    /\ stateCh = [h \in Handles |-> <<>>]
    /\ lastErr = [h \in Handles |-> "nil"]
    /\ invokes = [h \in Handles |-> 0]
    /\ wpc = [h \in Handles |-> "none"]
    /\ wErr = [h \in Handles |-> "nil"]
    /\ wSnap = [h \in Handles |-> <<>>]
    /\ spawned = [h \in Handles |-> <<>>]
    /\ regAtObs = [h \in Handles |-> -1]
    /\ lastObs = "none"
    /\ call = [c \in Calls |-> IdleCall]
    /\ last = NoCall
    /\ mu = "free"
    /\ rpc = [n \in Readys |-> "none"]
    /\ rSnap = [n \in Readys |-> <<>>]
    /\ rPayload = [n \in Readys |-> "none"]
    /\ regAtReady = [n \in Readys |-> -1]
    /\ rSpawned = [n \in Readys |-> <<>>]
    /\ exited = {}
    /\ blockedT = {}
    /\ panicked = {}
    /\ crashed = FALSE

(* --------------------------- the transport ----------------------------- *)
\* the handle pushes a transition to its state channel while the channel is
\* subscribed
Emit(ch, h, s, sub) == IF sub[h] THEN [ch EXCEPT ![h] = Append(@, s)] ELSE ch

\* the handle finishes its handshake
TransportConnected(h) ==
    /\ tstate[h] = "connecting"
    /\ Len(stateCh[h]) < StateChCap
    /\ tstate' = [tstate EXCEPT ![h] = "connected"]
    /\ stateCh' = Emit(stateCh, h, "Connected", subscribed)
    /\ last' = NoCall
    /\ UNCHANGED <<mu, handlerVars, clientVars, nHandles, stopped, subscribed, lastErr, invokes,
                   watchVars, lastObs, call>>

\* the handle's connection ends on its own, with or without a recorded error
TransportClosed(h, e) ==
    /\ tstate[h] \in {"connecting", "connected"}
    /\ Len(stateCh[h]) < StateChCap
    /\ tstate' = [tstate EXCEPT ![h] = "closed"]
    /\ lastErr' = [lastErr EXCEPT ![h] = e]
    /\ stateCh' = Emit(stateCh, h, "Closed", subscribed)
    /\ last' = NoCall
    /\ UNCHANGED <<mu, handlerVars, clientVars, nHandles, stopped, subscribed, invokes,
                   watchVars, lastObs, call>>

(* ----------------------------- lifecycle ------------------------------- *)
\* mutant: Connect without its early return
ConnectIsNoop_Never(flag) == FALSE

\* Connect's early return: "if c.connected { return nil }"
ConnectIsNoop(flag) == flag

ConnectNoop ==
    /\ ConnectIsNoop(connected)
    /\ last' = ApiCall("Connect", "nil")
    /\ UNCHANGED <<mu, handlerVars, clientVars, transportVars, watchVars, lastObs, call>>

\* mutant: "c.connection = client" moved before the check of err, so a failed
\* creation stores the nil client
ConnectionAfterFailure_Assigned(conn) == Nil

\* what c.connection holds after NewHTTPConnection or signalr.NewClient has
\* failed: Connect returns before it assigns it
ConnectionAfterFailure(conn) == conn

\* NewHTTPConnection (stage "connection") or signalr.NewClient (stage
\* "client") fails: Connect returns the wrapped error
ConnectFail(stage) ==
    /\ ~ConnectIsNoop(connected)
    /\ connection' = ConnectionAfterFailure(connection)
    /\ last' = ApiCall("Connect", "failed to create " \o stage)
    /\ UNCHANGED <<mu, handlerVars, connected, observeCancel, readyHandlers, disconnectHandlers,
                   transportVars, watchVars, lastObs, call>>

\* the handle is created: it becomes c.connection, its state channel is
\* subscribed, its watchStates goroutine is started and the transport is
\* started, which reports Connecting
ConnectOk ==
    /\ ~ConnectIsNoop(connected)
    /\ nHandles < MaxHandles
    /\ LET h == nHandles + 1 IN
        /\ nHandles' = h
        /\ connection' = h
        /\ observeCancel' = h
        /\ subscribed' = [subscribed EXCEPT ![h] = TRUE]
        /\ wpc' = [wpc EXCEPT ![h] = "recv"]
        /\ tstate' = [tstate EXCEPT ![h] = "connecting"]
        /\ stateCh' = Emit(stateCh, h, "Connecting", subscribed')
    /\ last' = ApiCall("Connect", "nil")
    /\ UNCHANGED <<mu, handlerVars, connected, readyHandlers, disconnectHandlers, stopped, lastErr,
                   invokes, wErr, wSnap, spawned, regAtObs, lastObs, call>>

\* mutant: Disconnect without "c.connected = false"
FlagAfterDisconnect_Kept(flag) == flag

\* the flag Disconnect leaves: "c.connected = false" on both of its paths
FlagAfterDisconnect(flag) == FALSE

\* Stop() cancels the handle, which ends closed and reports Closed to the
\* channels still subscribed
Disconnect ==
    /\ IF connection = Nil
       THEN UNCHANGED <<observeCancel, subscribed, tstate, stopped, stateCh>>
       ELSE LET sub == IF observeCancel # Nil
                       THEN [subscribed EXCEPT ![observeCancel] = FALSE]
                       ELSE subscribed
            IN  /\ subscribed' = sub
                /\ observeCancel' = Nil
                /\ tstate' = [tstate EXCEPT ![connection] = "closed"]
                /\ stopped' = [stopped EXCEPT ![connection] = TRUE]
                /\ stateCh' = Emit(stateCh, connection, "Closed", sub)
    /\ connected' = FlagAfterDisconnect(connected)
    /\ lastObs' = "Disconnect"
    /\ last' = ApiCall("Disconnect", "nil")
    /\ UNCHANGED <<mu, handlerVars, connection, readyHandlers, disconnectHandlers, nHandles, lastErr,
                   invokes, watchVars, call>>

IsConnected == connected

\* a registration appends one more handler; handlers are told apart by the
\* order of their registration
OnReady ==
    /\ Len(readyHandlers) < MaxReg
    /\ readyHandlers' = Append(readyHandlers, Len(readyHandlers) + 1)
    /\ last' = ApiCall("OnReady", "nil")
    /\ UNCHANGED <<mu, handlerVars, connected, connection, observeCancel, disconnectHandlers,
                   transportVars, watchVars, lastObs, call>>

OnDisconnect ==
    /\ Len(disconnectHandlers) < MaxReg
    /\ disconnectHandlers' = Append(disconnectHandlers, Len(disconnectHandlers) + 1)
    /\ last' = ApiCall("OnDisconnect", "nil")
    /\ UNCHANGED <<mu, handlerVars, connected, connection, observeCancel, readyHandlers,
                   transportVars, watchVars, lastObs, call>>

(* ------------------------- the state-watch loop ------------------------ *)
\* mutant: the flag is raised as soon as the transport reports Connecting
FlagAfterState_Connecting(s, flag) == IF s = "Closed" THEN FALSE ELSE TRUE

\* mutant: the switch without its ClientClosed case
FlagAfterState_NoClosed(s, flag) == IF s = "Connected" THEN TRUE ELSE flag

\* the switch of watchStates: the flag after a received transition
FlagAfterState(s, flag) ==
    CASE s = "Connected" -> TRUE
      [] s = "Closed" -> FALSE
      [] OTHER -> flag

\* mutant: the error of the handle is passed on as it is
CauseErr_Raw(e) == e

\* "err := c.connection.Err(); if err == nil { err = ErrNotConnected }"
CauseErr(e) == IF e = "nil" THEN "ErrNotConnected" ELSE e

\* mutant: the read lock is released by a deferred RUnlock, which a function
\* that goes on to dispatch has not run yet
LockAfterSnapshot_Deferred(lock, g) == g

\* c.mu after "RLock; handlers := append(...); RUnlock": released before the
\* first handler is started
LockAfterSnapshot(lock, g) == lock

\* mutant: the copy loses the first handler
Snapshot_DropFirst(handlers) == IF handlers = <<>> THEN <<>> ELSE Tail(handlers)

\* "handlers := append([]func(error){}, c.disconnectHandlers...)"
Snapshot(handlers) == handlers

\* one iteration of "for state := range stateCh", to the end of the locked
\* assignment of c.connected
WatchRecv(h) ==
    /\ wpc[h] = "recv"
    /\ stateCh[h] # <<>>
    /\ LET s == Head(stateCh[h]) IN
        /\ stateCh' = [stateCh EXCEPT ![h] = Tail(@)]
        /\ connected' = FlagAfterState(s, connected)
        /\ lastObs' = IF s \in {"Connected", "Closed"} THEN s ELSE lastObs
        /\ wpc' = [wpc EXCEPT ![h] = IF s = "Closed" THEN "readErr" ELSE "recv"]
        /\ regAtObs' = IF s = "Closed"
                       THEN [regAtObs EXCEPT ![h] = Len(disconnectHandlers)]
                       ELSE regAtObs
    /\ last' = NoCall
    /\ UNCHANGED <<mu, handlerVars, connection, observeCancel, readyHandlers, disconnectHandlers,
                   nHandles, tstate, stopped, subscribed, lastErr, invokes,
                   wErr, wSnap, spawned, call>>

\* the read of c.connection, made without the lock, and of its Err()
WatchReadErr(h) ==
    /\ wpc[h] = "readErr"
    /\ wErr' = [wErr EXCEPT ![h] = CauseErr(lastErr[connection])]
    /\ wpc' = [wpc EXCEPT ![h] = "snapshot"]
    /\ last' = NoCall
    /\ UNCHANGED <<mu, handlerVars, clientVars, transportVars, wSnap, spawned, regAtObs, lastObs, call>>

\* the snapshot copy under the read lock
WatchSnapshot(h) ==
    /\ wpc[h] = "snapshot"
    /\ wSnap' = [wSnap EXCEPT ![h] = Snapshot(disconnectHandlers)]
    /\ wpc' = [wpc EXCEPT ![h] = "dispatch"]
    /\ mu' = LockAfterSnapshot(mu, <<"watch", h>>)
    /\ last' = NoCall
    /\ UNCHANGED <<handlerVars, clientVars, transportVars, wErr, spawned, regAtObs, lastObs, call>>

\* "for _, h := range handlers { go h(err) }", then the next iteration
WatchDispatch(h) ==
    /\ wpc[h] = "dispatch"
    /\ spawned' = [spawned EXCEPT ![h] =
          @ \o [i \in 1..Len(wSnap[h]) |-> [handler |-> wSnap[h][i], err |-> wErr[h]]]]
    /\ wSnap' = [wSnap EXCEPT ![h] = <<>>]
    /\ wErr' = [wErr EXCEPT ![h] = "nil"]
    /\ wpc' = [wpc EXCEPT ![h] = "recv"]
    /\ last' = NoCall
    /\ UNCHANGED <<mu, handlerVars, clientVars, transportVars, regAtObs, lastObs, call>>

(* ------------------------ invoke and typed methods ---------------------- *)
\* mutant: GetChallengeBundle without its check of templateID
Validate_QuestOnly(m, a) == IF m = "GetDailyQuest" /\ a = "" THEN "ErrInvalidQuestID" ELSE "nil"

\* the local precondition of GetDailyQuest and GetChallengeBundle
Validate(m, a) ==
    CASE m = "GetDailyQuest" /\ a = "" -> "ErrInvalidQuestID"
      [] m = "GetChallengeBundle" /\ a = "" -> "ErrInvalidTemplateID"
      [] OTHER -> "nil"

\* mutant: invoke without its connectivity check
InvokeCheck_Missing(flag) == "nil"

\* "if !c.IsConnected() { return nil, ErrNotConnected }"
InvokeCheck(flag) == IF flag THEN "nil" ELSE "ErrNotConnected"

\* "if ctx == nil { ctx = context.Background() }"
CtxOf(k) == IF k = "nil" THEN "background" ELSE k

\* "_, hasDeadline := ctx.Deadline()"
HasDeadline(k) == CtxOf(k) = "deadline"

Cancelable(k) == CtxOf(k) \in {"cancelable", "deadline"}

\* mutant: a caller's deadline later than c.timeout is shortened to c.timeout
EffectiveDeadline_Shortened(k, d) == IF HasDeadline(k) /\ d < Timeout THEN d ELSE Timeout

\* mutant: the caller's deadline is used even when the context carries none
EffectiveDeadline_CallerOnly(k, d) == d

\* the deadline invoke waits for, on the clock that starts when it is derived:
\* the caller's, d ticks away, or "context.WithTimeout(ctx, c.timeout)"
EffectiveDeadline(k, d) == IF HasDeadline(k) THEN d ELSE Timeout

\* mutant: a typed method returns the half-filled target together with the
\* decode error
Unmarshal_Partial(res) ==
    CASE res = "match" -> [val |-> "value", err |-> "nil"]
      [] res = "null" -> [val |-> "zero", err |-> "nil"]
      [] OTHER -> [val |-> "value", err |-> "DecodeFailed"]

\* unmarshalResult: json.Marshal of the result, json.Unmarshal into the target
Unmarshal(res) ==
    CASE res = "match" -> [val |-> "value", err |-> "nil"]
      [] res = "null" -> [val |-> "zero", err |-> "nil"]
      [] OTHER -> [val |-> "none", err |-> "DecodeFailed"]

\* what a typed method returns for a successful transport result:
\* RefreshCache drops the value undecoded, the others decode it
TypedResult(m, res) ==
    IF m = "RefreshCache" THEN [val |-> "none", err |-> "nil"] ELSE Unmarshal(res)

\* "case res := <-ch": the error branch and the value branch
InvokeResult(m, res) ==
    IF res = "error" THEN [val |-> "none", err |-> "ErrInvokeFailed"]
    ELSE TypedResult(m, res)

\* the record of a call that has returned: what the transport delivered to it
\* and the value and the error it returned
Returned(r, res, v, e) == [r EXCEPT !.pc = "done", !.res = res, !.val = v, !.err = e]

\* a typed method is called: its argument check, then invoke's connectivity check
CallBegin(c, m, a, k, d) ==
    /\ call[c].pc = "idle"
    /\ LET r == [IdleCall EXCEPT !.method = m, !.arg = a, !.ctx = k, !.delta = d] IN
        call' = [call EXCEPT ![c] =
            IF Validate(m, a) # "nil"
            THEN Returned(r, "none", "none", Validate(m, a))
            ELSE IF InvokeCheck(IsConnected) # "nil"
                 THEN Returned(r, "none", "none", InvokeCheck(IsConnected))
                 ELSE [r EXCEPT !.pc = "checked"]]
    /\ last' = NoCall
    /\ UNCHANGED <<mu, handlerVars, clientVars, transportVars, watchVars, lastObs>>

\* the effective deadline is derived and the call is submitted:
\* "ch := c.connection.Invoke(method, args...)", c.connection read without the lock
CallSubmit(c) ==
    /\ call[c].pc = "checked"
    /\ call' = [call EXCEPT ![c].pc = "waiting", ![c].submitted = TRUE,
                            ![c].conn = connection,
                            ![c].deadline = EffectiveDeadline(call[c].ctx, call[c].delta)]
    /\ invokes' = [invokes EXCEPT ![connection] = @ + 1]
    /\ last' = NoCall
    /\ UNCHANGED <<mu, handlerVars, clientVars, nHandles, tstate, stopped, subscribed, stateCh, lastErr,
                   watchVars, lastObs>>

\* the caller cancels the context it passed
CancelCtx(c) ==
    /\ call[c].pc \in {"checked", "waiting"}
    /\ Cancelable(call[c].ctx)
    /\ ~call[c].cancelled
    /\ call' = [call EXCEPT ![c].cancelled = TRUE]
    /\ last' = NoCall
    /\ UNCHANGED <<mu, handlerVars, clientVars, transportVars, watchVars, lastObs>>

\* the transport delivers res on the call's channel and the select takes it
CallResult(c, res) ==
    /\ call[c].pc = "waiting"
    /\ LET out == InvokeResult(call[c].method, res) IN
        call' = [call EXCEPT ![c] = Returned(@, res, out.val, out.err)]
    /\ last' = NoCall
    /\ UNCHANGED <<mu, handlerVars, clientVars, transportVars, watchVars, lastObs>>

\* ctx.Done() is closed: the deadline has passed or the context was cancelled
CtxDone(r) == r.cancelled \/ r.elapsed >= r.deadline

\* "case <-ctx.Done()"
CallTimeout(c) ==
    /\ call[c].pc = "waiting"
    /\ CtxDone(call[c])
    /\ call' = [call EXCEPT ![c] = Returned(@, "none", "none", "ErrConnectionTimeout")]
    /\ last' = NoCall
    /\ UNCHANGED <<mu, handlerVars, clientVars, transportVars, watchVars, lastObs>>

\* time passes for the calls that wait
Tick ==
    /\ \E c \in Calls : call[c].pc = "waiting"
    /\ \A c \in Calls : call[c].pc = "waiting" => call[c].elapsed < MaxTime
    /\ call' = [c \in Calls |->
          IF call[c].pc = "waiting" THEN [call[c] EXCEPT !.elapsed = @ + 1] ELSE call[c]]
    /\ last' = NoCall
    /\ UNCHANGED <<mu, handlerVars, clientVars, transportVars, watchVars, lastObs>>

(* ------------------------- the Event Receiver -------------------------- *)
\* mutant: the copy is filled from the last registration to the first
ReadySnapshot_Reversed(handlers) ==
    [i \in 1..Len(handlers) |-> handlers[Len(handlers) + 1 - i]]

\* "handlers := append([]func(ReadyStatus){}, r.client.readyHandlers...)"
ReadySnapshot(handlers) == handlers

\* the transport of a connected handle calls hubReceiver.Ready with payload
\* p: the call, to the end of the snapshot copy under the read lock
ReadyRecv(n, p) ==
    /\ rpc[n] = "none"
    /\ \A m \in Readys : m < n => rpc[m] # "none"
    /\ \E h \in Handles : tstate[h] = "connected"
    /\ rpc' = [rpc EXCEPT ![n] = "dispatch"]
    /\ rPayload' = [rPayload EXCEPT ![n] = p]
    /\ rSnap' = [rSnap EXCEPT ![n] = ReadySnapshot(readyHandlers)]
    /\ regAtReady' = [regAtReady EXCEPT ![n] = Len(readyHandlers)]
    /\ mu' = LockAfterSnapshot(mu, <<"ready", n>>)
    /\ last' = NoCall
    /\ UNCHANGED <<clientVars, transportVars, watchVars, lastObs, call,
                   rSpawned, exited, blockedT, panicked, crashed>>

\* "for _, h := range handlers { go h(status) }", then Ready returns
ReadyDispatch(n) ==
    /\ rpc[n] = "dispatch"
    /\ rSpawned' = [rSpawned EXCEPT ![n] =
          [i \in 1..Len(rSnap[n]) |-> [handler |-> rSnap[n][i], payload |-> rPayload[n]]]]
    /\ rSnap' = [rSnap EXCEPT ![n] = <<>>]
    /\ rpc' = [rpc EXCEPT ![n] = "done"]
    /\ last' = NoCall
    /\ UNCHANGED <<clientVars, transportVars, watchVars, lastObs, call, mu,
                   rPayload, regAtReady, exited, blockedT, panicked, crashed>>

(* ------------------------ the handler goroutines ----------------------- *)
\* the goroutines started by "go h(err)" and by "go h(status)": the k-th of
\* the Closed transition of handle h, the k-th of notification n
Tasks ==
    {<<"d", h, k>> : h \in Handles, k \in 1..MaxReg} \cup
    {<<"r", n, k>> : n \in Readys, k \in 1..MaxReg}

TaskStarted(t) ==
    IF t[1] = "d" THEN t[3] <= Len(spawned[t[2]]) ELSE t[3] <= Len(rSpawned[t[2]])

\* a handler goroutine that runs: started, and neither returned, blocked nor
\* panicked
Runnable(t) == TaskStarted(t) /\ t \notin (exited \cup blockedT \cup panicked)

\* a panic in a goroutine started by a bare "go h(err)" is recovered by
\* nobody: the Go runtime ends the process
CrashAfterPanic(c) == TRUE

\* the user's handler returns
HandlerReturn(t) ==
    /\ Runnable(t)
    /\ exited' = exited \cup {t}
    /\ last' = NoCall
    /\ UNCHANGED <<clientVars, transportVars, watchVars, lastObs, call, mu,
                   rpc, rSnap, rPayload, regAtReady, rSpawned, blockedT, panicked, crashed>>

\* the user's handler blocks and never returns
HandlerBlock(t) ==
    /\ Runnable(t)
    /\ blockedT' = blockedT \cup {t}
    /\ last' = NoCall
    /\ UNCHANGED <<clientVars, transportVars, watchVars, lastObs, call, mu,
                   rpc, rSnap, rPayload, regAtReady, rSpawned, exited, panicked, crashed>>

\* the user's handler panics
HandlerPanic(t) ==
    /\ Runnable(t)
    /\ panicked' = panicked \cup {t}
    /\ crashed' = CrashAfterPanic(crashed)
    /\ last' = NoCall
    /\ UNCHANGED <<clientVars, transportVars, watchVars, lastObs, call, mu,
                   rpc, rSnap, rPayload, regAtReady, rSpawned, exited, blockedT>>

\* a step of a goroutine of a process that has not been ended
Running(Act) == ~crashed /\ Act

\* a step that takes c.mu, for reading or for writing, and releases it
WithLock(Act) == ~crashed /\ mu = "free" /\ Act

\* a call of the client's API made from inside a handler
FromHandler(Act) == (\E t \in Tasks : Runnable(t)) /\ WithLock(Act)

(* --------------------------- specifications ---------------------------- *)
\* the connection lifecycle: Connect, Disconnect, registrations, the
\* transport's transitions and the watch loops
Next ==
    \/ ConnectNoop
    \/ \E stage \in {"connection", "client"} : ConnectFail(stage)
    \/ ConnectOk
    \/ Disconnect
    \/ OnReady
    \/ OnDisconnect
    \/ \E h \in Handles : TransportConnected(h)
    \/ \E h \in Handles, e \in {"nil", "err"} : TransportClosed(h, e)
    \/ \E h \in Handles : WatchRecv(h)
    \/ \E h \in Handles : WatchReadErr(h)
    \/ \E h \in Handles : WatchSnapshot(h)
    \/ \E h \in Handles : WatchDispatch(h)

Spec == Init /\ [][Next]_vars

\* the typed RPC calls of a client that connects and is disconnected, by the
\* transport or by Disconnect
InvokeConnect == ConnectOk /\ nHandles' <= InvokeHandles

NextInvoke ==
    \/ InvokeConnect
    \/ Disconnect
    \/ \E h \in Handles : TransportConnected(h)
    \/ \E h \in Handles : TransportClosed(h, "err")
    \/ \E h \in Handles : WatchRecv(h)
    \/ \E h \in Handles : WatchReadErr(h)
    \/ \E h \in Handles : WatchSnapshot(h)
    \/ \E h \in Handles : WatchDispatch(h)
    \/ \E c \in Calls, m \in Methods, k \in CtxKinds :
         \E a \in ArgsOf(m), d \in (IF HasDeadline(k) THEN CallerDeltas ELSE {0}) :
            CallBegin(c, m, a, k, d)
    \/ \E c \in Calls : CallSubmit(c)
    \/ \E c \in Calls : CancelCtx(c)
    \/ \E c \in Calls, res \in Results : CallResult(c, res)
    \/ \E c \in Calls : CallTimeout(c)
    \/ Tick

SpecInvoke == Init /\ [][NextInvoke]_vars

\* the Go runtime runs every timer and every goroutine that can run
SpecInvokeFair ==
    /\ SpecInvoke
    /\ WF_vars(Tick)
    /\ \A c \in Calls : WF_vars(CallSubmit(c)) /\ WF_vars(CallTimeout(c))

\* the typed RPC calls of SpecInvoke together with the registrations of
\* handlers, up to ApiReg in each registry
ApiOnReady == OnReady /\ Len(readyHandlers') <= ApiReg

ApiOnDisconnect == OnDisconnect /\ Len(disconnectHandlers') <= ApiReg

NextApi ==
    \/ NextInvoke
    \/ ApiOnReady
    \/ ApiOnDisconnect

SpecApi == Init /\ [][NextApi]_vars

\* Ready notifications: a client that connects, registers ready handlers
\* at any time and is disconnected, by the transport or by Disconnect
NextReady ==
    \/ InvokeConnect
    \/ Disconnect
    \/ OnReady
    \/ \E h \in Handles : TransportConnected(h)
    \/ \E h \in Handles : TransportClosed(h, "err")
    \/ \E h \in Handles : WatchRecv(h)
    \/ \E h \in Handles : WatchReadErr(h)
    \/ \E h \in Handles : WatchSnapshot(h)
    \/ \E h \in Handles : WatchDispatch(h)
    \/ \E n \in Readys, p \in Payloads : ReadyRecv(n, p)
    \/ \E n \in Readys : ReadyDispatch(n)

SpecReady == Init /\ [][NextReady]_vars

\* the handlers at work: they return, block for ever, panic, or call back
\* into the client (IsConnected reads the flag under the lock and changes
\* nothing; it is the WithLock step that leaves every variable as it is)
NextHandlers ==
    \/ WithLock(InvokeConnect)
    \/ WithLock(ApiOnReady)
    \/ WithLock(OnDisconnect)
    \/ \E h \in Handles : Running(TransportConnected(h))
    \/ \E h \in Handles : Running(TransportClosed(h, "err"))
    \/ \E h \in Handles : WithLock(WatchRecv(h))
    \/ \E h \in Handles : Running(WatchReadErr(h))
    \/ \E h \in Handles : WithLock(WatchSnapshot(h))
    \/ \E h \in Handles : Running(WatchDispatch(h))
    \/ WithLock(ReadyRecv(1, "v1"))
    \/ Running(ReadyDispatch(1))
    \/ \E t \in Tasks : Running(HandlerReturn(t))
    \/ \E t \in Tasks : Running(HandlerBlock(t))
    \/ \E t \in Tasks : Running(HandlerPanic(t))
    \/ FromHandler(Disconnect)
    \/ FromHandler(ConnectOk)
    \/ FromHandler(ConnectNoop)

SpecHandlers == Init /\ [][NextHandlers]_vars

(* ------------------------------- claims -------------------------------- *)
\* C1: in every reachable state IsConnected is true exactly when the last of
\* the three events that bear on the flag (a Connected transition handled by
\* a watch loop, a Closed transition handled by a watch loop, a Disconnect
\* call) is a Connected transition.  A transition counts as observed when the
\* loop handles it under the client lock.
C1_FlagIsLastObservation == IsConnected <=> (lastObs = "Connected")

\* a client that reconnected after a Disconnect and is connected again
C1_Witness ==
    /\ connected
    /\ lastObs = "Connected"
    /\ nHandles = 2
    /\ \E h \in Handles : stopped[h]

\* the handles that were started and are neither stopped nor closed
ActiveHandles == {h \in Handles : tstate[h] \in {"connecting", "connected"}}

\* C2: at most one Transport Handle of the client is active at any time
C2_AtMostOneActiveHandle == Cardinality(ActiveHandles) <= 1

\* C3, as claimed: a typed method called with any arguments while the flag is
\* false fails with NotConnected and submits nothing to the transport
C3_AnyArguments ==
    [][\A c \in Calls :
          (call[c].pc = "idle" /\ call'[c].pc # "idle" /\ ~connected)
          => /\ call'[c].pc = "done"
             /\ call'[c].err = "ErrNotConnected"
             /\ invokes' = invokes]_vars

\* C3, amended: a typed method called while the flag is false returns at once
\* and submits nothing to the transport; it fails with NotConnected unless it
\* is GetDailyQuest or GetChallengeBundle called with an empty identifier,
\* which fail with their InvalidArgument error
C3_NotConnected ==
    [][\A c \in Calls :
          (call[c].pc = "idle" /\ call'[c].pc # "idle" /\ ~connected)
          => /\ call'[c].pc = "done"
             /\ ~call'[c].submitted
             /\ call'[c].val = "none"
             /\ call'[c].err =
                  (CASE call'[c].method = "GetDailyQuest" /\ call'[c].arg = ""
                          -> "ErrInvalidQuestID"
                     [] call'[c].method = "GetChallengeBundle" /\ call'[c].arg = ""
                          -> "ErrInvalidTemplateID"
                     [] OTHER -> "ErrNotConnected")
             /\ invokes' = invokes]_vars

\* a call refused with NotConnected by a client that has a handle, nothing
\* having been submitted to any handle
C3_Witness ==
    \E c \in Calls :
        /\ call[c].pc = "done"
        /\ call[c].err = "ErrNotConnected"
        /\ connection # Nil
        /\ \A h \in Handles : invokes[h] = 0

\* C4: Connect called while the flag is true returns no error and changes
\* nothing: flag, handle reference, subscription, registries, handles, watch
\* loops and transport are as before
C4_ConnectIdempotent ==
    [][(connected /\ last'.op = "Connect")
       => (last'.err = "nil" /\ UNCHANGED <<clientVars, transportVars, watchVars, call>>)]_vars

\* Connect has just returned on a connected client
C4_Witness == connected /\ last.op = "Connect" /\ last.err = "nil"

\* the client holds no handle that Disconnect has not stopped already: the
\* state every Disconnect leaves, until a Connect creates the next handle
AlreadyDisconnected == connection = Nil \/ stopped[connection]

\* C5: Disconnect returns no error and leaves the flag false from every
\* state; made on a client that a Disconnect has left with no handle created
\* since, it changes neither the handle reference, the subscription, the
\* registries, the transport nor the watch loops, so that the client is as
\* the first Disconnect left it; and a Disconnect that follows a Disconnect
\* changes nothing at all
C5_DisconnectIdempotent ==
    [][last'.op = "Disconnect"
       => /\ last'.err = "nil"
          /\ ~connected'
          /\ (AlreadyDisconnected
              => UNCHANGED <<connection, observeCancel, readyHandlers, disconnectHandlers,
                             transportVars, watchVars, call>>)
          /\ (last.op = "Disconnect"
              => UNCHANGED <<clientVars, transportVars, watchVars, lastObs, call>>)]_vars

\* a second Disconnect in a row has returned on a client that has a handle
C5_Witness ==
    /\ last.op = "Disconnect"
    /\ last.again
    /\ connection # Nil
    /\ stopped[connection]

\* how often handler i was started for the Closed transition of handle h
Started(h, i) == Cardinality({k \in 1..Len(spawned[h]) : spawned[h][k].handler = i})

\* the watch loop of h has observed Closed and has finished its dispatch
Dispatched(h) == regAtObs[h] >= 0 /\ wpc[h] = "recv"

\* C6: for the Closed transition of a handle no handler is started twice;
\* once the dispatch is over every handler registered before the transition
\* was observed has been started exactly once; and from then on the handlers
\* started for it never change, so that a handler registered later is not
\* started for it
C6_ExactlyOnce ==
    /\ [](\A h \in Handles :
            /\ \A i \in 1..MaxReg : Started(h, i) <= 1
            /\ Dispatched(h) => \A i \in 1..regAtObs[h] : Started(h, i) = 1)
    /\ [][\A h \in Handles :
            (wpc[h] # "dispatch" => spawned'[h] = spawned[h])
            /\ \A k \in 1..Len(spawned'[h]) :
                  spawned'[h][k].handler \in 1..Len(disconnectHandlers)]_vars

\* one handler was registered before a Closed transition and started once
\* for it, a second one was registered after the dispatch and not started
C6_Witness ==
    \E h \in Handles :
        /\ Dispatched(h)
        /\ regAtObs[h] = 1
        /\ Started(h, 1) = 1
        /\ Len(disconnectHandlers) = 2
        /\ Started(h, 2) = 0

\* a call that went past the connectivity check with a context without
\* deadline, has returned, and got nothing from the transport
TimedOutNoDeadline(r) ==
    r.pc = "done" /\ r.submitted /\ ~HasDeadline(r.ctx) /\ r.res = "none"

\* C7, as claimed: such a call returns ConnectionTimeout and not before
\* c.timeout has elapsed
C7_NeverBeforeTimeout ==
    \A c \in Calls :
        TimedOutNoDeadline(call[c])
        => (call[c].err = "ErrConnectionTimeout" /\ call[c].elapsed >= Timeout)

\* C7, amended: every call that went past the connectivity check returns;
\* with a context without deadline and no result from the transport it
\* returns ConnectionTimeout, and not before c.timeout has elapsed unless the
\* caller cancelled the context
C7_TimeoutOrCancel ==
    /\ [](\A c \in Calls :
            TimedOutNoDeadline(call[c])
            => /\ call[c].err = "ErrConnectionTimeout"
               /\ call[c].val = "none"
               /\ (call[c].elapsed >= Timeout \/ call[c].cancelled))
    /\ \A c \in Calls : (call[c].pc \in {"checked", "waiting"}) ~> (call[c].pc = "done")

\* a call with a context that has no deadline and was not cancelled has
\* returned ConnectionTimeout when c.timeout had elapsed
C7_Witness ==
    \E c \in Calls :
        /\ TimedOutNoDeadline(call[c])
        /\ ~call[c].cancelled
        /\ call[c].err = "ErrConnectionTimeout"
        /\ call[c].elapsed = Timeout

\* C8: GetDailyQuest and GetChallengeBundle called with an empty identifier
\* return their InvalidArgument error and no value at once, whatever the
\* flag is, submit nothing to the transport and change nothing in the
\* client, the transport or the watch loops
C8_EmptyIdentifier ==
    [][\A c \in Calls :
          (call[c].pc = "idle" /\ call'[c].pc # "idle" /\ call'[c].arg = "")
          => /\ call'[c].pc = "done"
             /\ ~call'[c].submitted
             /\ call'[c].val = "none"
             /\ call'[c].err = (IF call'[c].method = "GetDailyQuest"
                                THEN "ErrInvalidQuestID" ELSE "ErrInvalidTemplateID")
             /\ UNCHANGED <<clientVars, transportVars, watchVars>>]_vars

\* GetChallengeBundle("") has returned its error on a connected client
C8_Witness ==
    \E c \in Calls :
        /\ call[c].pc = "done"
        /\ call[c].method = "GetChallengeBundle"
        /\ call[c].arg = ""
        /\ call[c].err = "ErrInvalidTemplateID"
        /\ connected

\* the errors of the taxonomy a typed method can return
Classified == {"ErrNotConnected", "ErrInvalidQuestID", "ErrInvalidTemplateID",
               "ErrInvokeFailed", "ErrConnectionTimeout", "DecodeFailed"}

\* what holds of the cause of every outcome: InvokeFailed only for an error
\* result, ConnectionTimeout only once the deadline has passed or the context
\* was cancelled, a value only for a successful result
OutcomeCauses(r) ==
    /\ r.err = "ErrInvokeFailed" => (r.submitted /\ r.res = "error")
    /\ r.err = "ErrConnectionTimeout"
          => (r.submitted /\ (r.cancelled \/ r.elapsed >= r.deadline))
    /\ r.val # "none" => (r.submitted /\ r.res \in {"match", "null"})

\* C9, as claimed: every typed call that has returned yields a value and no
\* error, or no value and one classified error
C9_ValueOrError ==
    \A c \in Calls :
        call[c].pc = "done"
        => /\ \/ (call[c].val # "none" /\ call[c].err = "nil")
              \/ (call[c].val = "none" /\ call[c].err \in Classified)
           /\ OutcomeCauses(call[c])

\* C9, amended: every typed call other than RefreshCache that has returned
\* yields a value and no error, or no value and one classified error;
\* RefreshCache yields no value, with no error exactly when the transport
\* delivered a successful result and else with NotConnected, InvokeFailed or
\* ConnectionTimeout; the causes are as claimed
C9_ValueOrErrorButRefresh ==
    \A c \in Calls :
        call[c].pc = "done"
        => /\ IF call[c].method = "RefreshCache"
              THEN /\ call[c].val = "none"
                   /\ call[c].err \in {"nil", "ErrNotConnected", "ErrInvokeFailed",
                                       "ErrConnectionTimeout"}
                   /\ call[c].err = "nil"
                        <=> (call[c].submitted /\ call[c].res \in {"match", "null", "mismatch"})
              ELSE \/ (call[c].val # "none" /\ call[c].err = "nil")
                   \/ (call[c].val = "none" /\ call[c].err \in Classified)
           /\ OutcomeCauses(call[c])

\* a typed call has failed to decode a result the transport delivered
C9_Witness ==
    \E c \in Calls :
        /\ call[c].pc = "done"
        /\ call[c].res = "mismatch"
        /\ call[c].err = "DecodeFailed"
        /\ call[c].val = "none"

\* C10: a Connect that fails to create the handle returns the wrapped
\* error and changes nothing: flag, handle reference, subscription,
\* registries, handles, watch loops and transport are as before
C10_ConnectFailure ==
    [][(last'.op = "Connect" /\ last'.err # "nil")
       => /\ last'.err \in {"failed to create connection", "failed to create client"}
          /\ UNCHANGED <<clientVars, transportVars, watchVars, lastObs, call>>]_vars

\* Connect has failed on a client that holds a stopped handle and a handler
C10_Witness ==
    /\ last.op = "Connect"
    /\ last.err = "failed to create client"
    /\ connection # Nil
    /\ stopped[connection]
    /\ disconnectHandlers # <<>>

\* C11: every error a disconnect handler is started with is the recorded
\* error of the client's Transport Handle or, when that handle has recorded
\* none, the generic ErrNotConnected, and never nil; once the dispatch of a
\* Closed transition is over, every handler registered when the transition
\* was observed has been started with such an error
C11_NonNilError ==
    /\ [](\A h \in Handles :
            /\ \A k \in 1..Len(spawned[h]) : spawned[h][k].err \in {"err", "ErrNotConnected"}
            /\ wpc[h] \in {"snapshot", "dispatch"} => wErr[h] # "nil"
            /\ Dispatched(h)
                 => \A i \in 1..regAtObs[h] :
                       \E k \in 1..Len(spawned[h]) :
                          spawned[h][k].handler = i /\ spawned[h][k].err # "nil")
    /\ [][\A h \in Handles :
            (wpc[h] = "readErr" /\ wpc'[h] = "snapshot")
            => wErr'[h] = (IF lastErr[connection] = "nil"
                           THEN "ErrNotConnected" ELSE lastErr[connection])]_vars

\* a handle closed without a recorded error and its handler was started with
\* ErrNotConnected, another closed with one and its handler was started with it
C11_Witness ==
    \E h, g \in Handles :
        /\ lastErr[h] = "nil"
        /\ spawned[h] # <<>>
        /\ spawned[h][1].err = "ErrNotConnected"
        /\ lastErr[g] = "err"
        /\ spawned[g] # <<>>
        /\ spawned[g][1].err = "err"

\* C17: the error every disconnect handler is started with for the Closed
\* transition of handle h is the recorded error of h itself, or
\* ErrNotConnected when h has recorded none
C17_OwnError ==
    \A h \in Handles :
        \A k \in 1..Len(spawned[h]) : spawned[h][k].err = CauseErr(lastErr[h])

\* the watch loop of h can take no further step, now or later: Disconnect
\* has stopped h and cancelled its subscription, the channel is drained, and
\* the loop waits in its receive
Leaked(h) ==
    /\ stopped[h]
    /\ ~subscribed[h]
    /\ stateCh[h] = <<>>
    /\ wpc[h] = "recv"

C19_NoStaleFlag ==
    [][(~connected /\ connected' /\ \E g \in Handles : stopped[g])
       => /\ connection # Nil
          /\ ~stopped[connection]
          /\ stateCh'[connection] # stateCh[connection]]_vars

\* C14: the flag becomes true only in the step in which a watch loop takes a
\* Connected transition from its state channel; a Connect that creates a
\* handle returns with the flag false; OnReady, OnDisconnect and every step
\* of a typed RPC call leave the flag as it is
C14_FlagSetByWatchLoopOnly ==
    [][/\ (~connected /\ connected')
            => \E h \in Handles :
                  /\ wpc[h] = "recv"
                  /\ stateCh[h] # <<>>
                  /\ Head(stateCh[h]) = "Connected"
                  /\ stateCh'[h] = Tail(stateCh[h])
       /\ (last'.op = "Connect" /\ nHandles' # nHandles)
            => (last'.err = "nil" /\ ~connected')
       /\ last'.op \in {"OnReady", "OnDisconnect"} => connected' = connected
       /\ call' # call => connected' = connected]_vars

\* Connect has just created a handle and returned, the flag is false, and a
\* typed call made then is refused with NotConnected
C14_Witness ==
    /\ nHandles = 1
    /\ connection = 1
    /\ ~connected
    /\ lastObs = "none"
    /\ \E c \in Calls : call[c].pc = "done" /\ call[c].err = "ErrNotConnected"

\* the deadline of a submitted call, on the clock that starts when invoke
\* derives it: the caller's when the context carries one, else c.timeout
ClaimedDeadline(r) == IF r.ctx = "deadline" THEN r.delta ELSE Timeout

\* C15, as claimed: the effective deadline of a submitted call is the
\* caller's deadline when the context carries one and c.timeout after the
\* derivation when it carries none or is nil; a wait that ends without a
\* result ends at the effective deadline, not before
C15_DeadlineOrResult ==
    \A c \in Calls :
        call[c].submitted
        => /\ call[c].deadline = ClaimedDeadline(call[c])
           /\ (call[c].pc = "done" /\ call[c].res = "none")
                => call[c].elapsed >= call[c].deadline

\* C15, amended: the effective deadline is as claimed; a wait that ends
\* without a result ends with ConnectionTimeout, at the effective deadline or
\* when the caller cancels the context, whichever comes first; a wait that
\* ends with a result returns what the result decides
C15_DeadlineResultOrCancel ==
    \A c \in Calls :
        call[c].submitted
        => /\ call[c].deadline = ClaimedDeadline(call[c])
           /\ (call[c].pc = "done" /\ call[c].res = "none")
                => /\ call[c].err = "ErrConnectionTimeout"
                   /\ (call[c].elapsed >= call[c].deadline \/ call[c].cancelled)
           /\ (call[c].pc = "done" /\ call[c].res # "none")
                => call[c].err # "ErrConnectionTimeout"

\* a call whose context carries a deadline later than c.timeout has waited
\* past c.timeout and has timed out at the caller's deadline
C15_Witness ==
    \E c \in Calls :
        /\ call[c].pc = "done"
        /\ call[c].ctx = "deadline"
        /\ call[c].delta = Timeout + 1
        /\ ~call[c].cancelled
        /\ call[c].err = "ErrConnectionTimeout"
        /\ call[c].elapsed = Timeout + 1

\* C20: a call is submitted to a Transport Handle only in a state in which
\* the flag is true
C20_SubmitOnlyConnected ==
    [][invokes' # invokes => connected]_vars

\* C12: the handlers started for a Ready notification are exactly the
\* handlers that were in the registry when the notification was dispatched
\* (its snapshot was taken), each once, in the order of their registration
\* and each with the payload of the notification; nothing is started before
\* the dispatch, and once the dispatch is over the handlers started for the
\* notification never change, so that a handler registered later gets only
\* later notifications
C12_ReadyDispatch ==
    /\ [](\A n \in Readys :
            /\ rpc[n] = "done"
                 => rSpawned[n] = [i \in 1..regAtReady[n] |->
                                      [handler |-> i, payload |-> rPayload[n]]]
            /\ rpc[n] # "done" => rSpawned[n] = <<>>)
    /\ [][\A n \in Readys :
            /\ rpc[n] = "done" => rSpawned'[n] = rSpawned[n]
            /\ (rpc[n] = "none" /\ rpc'[n] # "none")
                 => regAtReady'[n] = Len(readyHandlers)]_vars

\* the first notification found one handler and started it; a second
\* handler was registered then, and the second notification, with another
\* payload, started both
C12_Witness ==
    /\ rpc[1] = "done"
    /\ Len(rSpawned[1]) = 1
    /\ rpc[2] = "done"
    /\ Len(rSpawned[2]) = 2
    /\ rPayload[1] # rPayload[2]

\* C13: a handler that has panicked leaves the process running, and with it
\* the watch loops and the other handlers
C13_PanicIsolated == panicked # {} => ~crashed

\* C16: at no point between two steps is c.mu held, so no handler runs while
\* a dispatcher holds it and a handler that calls back into the client finds
\* it free; as soon as handlers are started their dispatcher has gone on (the
\* watch loop is back at its receive, Ready has returned), whatever the
\* handlers do; and while the process runs, a handler that blocks for ever
\* stops neither a watch loop that has a transition to take nor another
\* handler that runs
C16_DispatchOutsideLock ==
    /\ mu = "free"
    /\ \A h \in Handles : spawned[h] # <<>> => wpc[h] = "recv"
    /\ \A n \in Readys : rSpawned[n] # <<>> => rpc[n] = "done"
    /\ ~crashed
         => /\ \A h \in Handles :
                  (wpc[h] = "recv" /\ stateCh[h] # <<>>) => ENABLED WithLock(WatchRecv(h))
            /\ \A t \in Tasks : Runnable(t) => ENABLED Running(HandlerReturn(t))
            /\ (\E t \in Tasks : Runnable(t)) => ENABLED FromHandler(Disconnect)

\* a handler of the Closed transition of the first handle blocks for ever;
\* its sibling has returned; a handler has called Connect, and the watch loop
\* of the new handle has handled Connected
C16_Witness ==
    /\ <<"d", 1, 1>> \in blockedT
    /\ <<"d", 1, 2>> \in exited
    /\ nHandles = 2
    /\ connected
    /\ ~crashed

====
